---- MODULE Spec2Model ----
(***************************************************************************)
(* Model of core/ingredient.py: the Ingredient constructor (parse, match   *)
(* food, resolve weight), Ingredient.calc_nutrient, and the two            *)
(* aggregation functions calculate_total_nutrition and                     *)
(* calculate_serving_nutrition.                                            *)
(*                                                                         *)
(* Python floats are modelled as exact rationals <<n, d>> in lowest terms  *)
(* with d > 0; database DecimalField values as [digits, places] records    *)
(* that float() converts to a rational.  round(x, 2) rounds the exact      *)
(* value, a tie going to the even neighbour; on binary floats a decimal    *)
(* tie can fall to either neighbour, so the properties below ask of a      *)
(* rounded amount only that it is a multiple of 1/100 within 1/200 of the  *)
(* exact value.  Python's None is the empty function, written None below.  *)
(***************************************************************************)
EXTENDS Integers, Sequences, FiniteSets, TLC

VARIABLES pc, to_parse, self, matched_weight, raised, calls, ingredients, ret

vars == <<pc, to_parse, self, matched_weight, raised, calls, ingredients, ret>>

---------------------------------------------------------------------------
(* Bounds of the model *)

MaxIngredients == 2
MaxServings == 2

---------------------------------------------------------------------------
(* Floats as exact rationals *)

None == [x \in {} |-> 0]

Abs(i) == IF i < 0 THEN -i ELSE i

RECURSIVE GCD(_, _)
GCD(a, b) == IF b = 0 THEN a ELSE GCD(b, a % b)

Rat(n, d) ==
    LET g == GCD(Abs(n), Abs(d))
        s == IF d < 0 THEN -1 ELSE 1
    IN  <<(s * n) \div g, (s * d) \div g>>

Zero == <<0, 1>>

\* over the least common denominator, to keep the products small
RatAdd(x, y) ==
    LET g == GCD(x[2], y[2])
    IN  Rat(x[1] * (y[2] \div g) + y[1] * (x[2] \div g), (x[2] \div g) * y[2])

RatMul(x, y) == Rat(x[1] * y[1], x[2] * y[2])

\* x / y for y # 0; the callers raise ZeroDivisionError themselves
RatDiv(x, y) == Rat(x[1] * y[2], x[2] * y[1])

\* round(x, 2): the nearest multiple of 1/100, a tie going to the even one
round2(x) ==
    LET num == 100 * x[1]
        f   == num \div x[2]
        r   == num - f * x[2]
        h   == IF 2 * r < x[2] THEN f
               ELSE IF 2 * r > x[2] THEN f + 1
               ELSE IF f % 2 = 0 THEN f ELSE f + 1
    IN  Rat(h, 100)

\* float(d) of a Decimal with the given number of decimal places
RECURSIVE Pow10(_)
Pow10(k) == IF k = 0 THEN 1 ELSE 10 * Pow10(k - 1)

float(dec) == Rat(dec.digits, Pow10(dec.places))

Decimal(digits, places) == [digits |-> digits, places |-> places]


---------------------------------------------------------------------------
(* The collaborators' data: food records, the unit table, the parser *)

FoodWeight(seq, amount, desc, weight) ==
    [seq |-> seq, amount |-> amount, desc |-> desc, weight |-> weight]

FoodNutrition(tagname, value) == [tagname |-> tagname, value |-> value]

\* A food without any FoodWeight; its SUGAR entry exists with value 0
Chicken ==
    [desc_long |-> "Chicken, broilers or fryers, breast, meat and skin, raw",
     weight    |-> << >>,
     nutrition |-> { FoodNutrition("ENERC_KCAL", Decimal(172000, 3)),
                     FoodNutrition("PROCNT", Decimal(20850, 3)),
                     FoodNutrition("FAT", Decimal(9250, 3)),
                     FoodNutrition("CHOLE", Decimal(64000, 3)),
                     FoodNutrition("SUGAR", Decimal(0, 3)) }]

\* A food with two FoodWeight entries and no FAT, CHOLE, K or FIBTG entry
Bread ==
    [desc_long |-> "Bread, white, commercially prepared",
     weight    |-> << FoodWeight(1, Decimal(1000, 3), "slice", Decimal(280, 1)),
                      FoodWeight(2, Decimal(2000, 3), "cup, crumbs", Decimal(450, 1)) >>,
     nutrition |-> { FoodNutrition("ENERC_KCAL", Decimal(228000, 3)),
                     FoodNutrition("PROCNT", Decimal(8850, 3)),
                     FoodNutrition("CHOCDF", Decimal(49420, 3)),
                     FoodNutrition("SUGAR", Decimal(4315, 3)),
                     FoodNutrition("NA", Decimal(490000, 3)) }]

\* search.match_one_food(name): the Food found for a name, or None
match_one_food(name) ==
    IF name = "chicken breast" THEN Chicken
    ELSE IF name = "bread" THEN Bread
    ELSE None

\* search.match_one_weight(food, measurement): any FoodWeight of the food,
\* or None when nothing matches the measurement
match_one_weight(food, measurement) ==
    { food.weight[j] : j \in 1..Len(food.weight) } \cup { None }

\* utils.unit_to_grams: unit symbol -> grams per unit
unit_to_grams ==
    [g |-> Rat(1, 1), kg |-> Rat(1000, 1), oz |-> Rat(2835, 100)]

\* Raw ingredient texts: a quantity, an optional unit, an optional
\* measurement word, a food name ("2 slice of bread", "1 kg of bread")
RawText(quantity, unit, measurement, name) ==
    [words |-> <<quantity, unit, measurement, name>>]

\* the quantities written in the texts
Quantities == { 0, 3 }

Texts ==
    { RawText(q, u, m, nm) : q \in Quantities,
                             u \in {"", "kg", "tbsp"},
                             m \in {"", "slice"},
                             nm \in {"chicken breast", "bread", "unobtainium"} }

\* search.parse_ingredient(to_parse).values(): amount, unit, measurement, name
parse_ingredient(text) ==
    << Rat(text.words[1], 1), text.words[2], text.words[3], text.words[4] >>

---------------------------------------------------------------------------
(* Exceptions *)

IngredientError(ctx, message) ==
    [type |-> "IngredientError", to_parse |-> ctx, message |-> message]

KeyError(key) == [type |-> "KeyError", key |-> key]

AttributeError == [type |-> "AttributeError", obj |-> "NoneType", attr |-> "weight"]

ZeroDivisionError == [type |-> "ZeroDivisionError"]

NoRet == [op |-> "none"]

---------------------------------------------------------------------------
(* Ingredient.__init__, in its three stages *)

Init ==
    /\ pc = "idle"
    /\ to_parse = None
    /\ self = None
    /\ matched_weight = None
    /\ raised = None
    /\ calls = << >>
    /\ ingredients = << >>
    /\ ret = NoRet

\* no call is running and the caller holds no outcome of an earlier call
Fresh ==
    /\ pc = "idle"
    /\ calls = << >>
    /\ raised = None
    /\ ret = NoRet

\* the caller is done with the outcome of its last call
Forget ==
    /\ pc = "idle"
    /\ ~ Fresh
    /\ to_parse' = None
    /\ matched_weight' = None
    /\ raised' = None
    /\ calls' = << >>
    /\ ret' = NoRet
    /\ UNCHANGED <<pc, self, ingredients>>

\* faulty variant of Raise: the error is recorded but the half-built object
\* is handed to the caller all the same
Raise_keeping_object(exc) ==
    /\ raised' = exc
    /\ ingredients' = Append(ingredients, self)
    /\ self' = None
    /\ pc' = "idle"

\* the constructor raises: the object under construction is dropped
Raise(exc) ==
    /\ raised' = exc
    /\ self' = None
    /\ pc' = "idle"
    /\ UNCHANGED ingredients

\* the constructor returns: the caller keeps the object
Return(obj) ==
    /\ ingredients' = Append(ingredients, obj)
    /\ self' = None
    /\ pc' = "idle"
    /\ UNCHANGED raised

\* lines 37-39: parse the text and store the four fields
Parse(text) ==
    /\ Fresh
    /\ Len(ingredients) < MaxIngredients
    /\ LET p == parse_ingredient(text)
       IN  self' = [amount |-> p[1], unit |-> p[2],
                    measurement |-> p[3], name |-> p[4]]
    /\ to_parse' = text
    /\ matched_weight' = None
    /\ calls' = << "parse_ingredient" >>
    /\ pc' = "match"
    /\ UNCHANGED <<raised, ret, ingredients>>

\* lines 40-42: match the food, raise when there is none
MatchFood ==
    /\ pc = "match"
    /\ calls' = Append(calls, "match_one_food")
    /\ LET food == match_one_food(self.name)
       IN  IF food = None
           THEN Raise(IngredientError(to_parse, "Couldn't match a food object."))
           ELSE /\ self' = self @@ [matched_food |-> food]
                /\ pc' = "weight"
                /\ UNCHANGED <<raised, ingredients>>
    /\ UNCHANGED <<to_parse, matched_weight, ret>>

\* faulty variant of has_unit: the unit counts only without a measurement
has_unit_without_measurement(obj) == obj.unit # "" /\ obj.measurement = ""

\* line 43: a non-empty unit string is truthy
has_unit(obj) == obj.unit # ""

\* line 44: amount * utils.unit_to_grams[unit]
unit_weight(obj) == RatMul(obj.amount, unit_to_grams[obj.unit])

\* line 52: self.matched_food.weight.exists()
weight_exists(obj) == obj.matched_food.weight # << >>

\* faulty variant of scaled_weight: the entry's reference amount is ignored
scaled_weight_ignoring_reference(obj, mw) ==
    RatMul(float(mw.weight), obj.amount)

\* lines 57-59: float(mw.weight) * (amount / float(mw.amount))
scaled_weight(obj, mw) ==
    RatMul(float(mw.weight), RatDiv(obj.amount, float(mw.amount)))

\* lines 43-44: the unit branch of __init__
UnitWeight ==
    /\ pc = "weight"
    /\ has_unit(self)
    /\ calls' = Append(calls, "unit_to_grams")
    /\ IF self.unit \in DOMAIN unit_to_grams
       THEN Return(self @@ [weight |-> unit_weight(self)])
       ELSE Raise(KeyError(self.unit))
    /\ UNCHANGED <<to_parse, matched_weight, ret>>

\* lines 45-46 and 48-59: the get_weight branch of __init__
GetWeight ==
    /\ pc = "weight"
    /\ ~ has_unit(self)
    /\ IF ~ weight_exists(self)
       THEN /\ calls' = Append(calls, "weight.exists")
            /\ Raise(IngredientError(self.matched_food,
                       "This food doesn't have any FoodWeight objects."))
            /\ UNCHANGED matched_weight
       ELSE /\ calls' = calls \o << "weight.exists", "match_one_weight" >>
            /\ \E mw \in match_one_weight(self.matched_food, self.measurement) :
                  /\ matched_weight' = << mw >>
                  /\ IF mw = None
                     THEN Raise(AttributeError)
                     ELSE IF float(mw.amount) = Zero
                     THEN Raise(ZeroDivisionError)
                     ELSE Return(self @@ [weight |-> scaled_weight(self, mw)])
    /\ UNCHANGED <<to_parse, ret>>

---------------------------------------------------------------------------
(* Nutrient queries and aggregation *)

Tagnames ==
    { "ENERC_KCAL", "PROCNT", "FAT", "FASAT", "FAPU", "FAMS",
      "CHOCDF", "SUGAR", "CHOLE", "NA", "K", "FIBTG" }

\* lines 78-85: matched_food.nutrition.get(tagname=...), None on DoesNotExist
get_nutrient_by_tagname(obj, tagname) ==
    LET found == { n \in obj.matched_food.nutrition : n.tagname = tagname }
    IN  IF found = {} THEN None ELSE CHOOSE n \in found : TRUE

\* faulty variant of calc_nutrient: an entry of value 0 counts as no entry
calc_nutrient_zero_as_absent(obj, tagname) ==
    LET nutrient == get_nutrient_by_tagname(obj, tagname)
    IN  IF nutrient = None \/ float(nutrient.value) = Zero
        THEN None
        ELSE RatMul(RatDiv(float(nutrient.value), Rat(100, 1)), obj.weight)

\* lines 64-76: None without an entry, else value / 100 * weight
calc_nutrient(obj, tagname) ==
    LET nutrient == get_nutrient_by_tagname(obj, tagname)
    IN  IF nutrient = None
        THEN None
        ELSE RatMul(RatDiv(float(nutrient.value), Rat(100, 1)), obj.weight)

\* line 202: None and 0.0 are falsy
truthy(calculated) == calculated # None /\ calculated # Zero

\* lines 151-166: the keys of total_nutrition
total_keys ==
    { "ENERGY", "FAT", "PROTEIN", "CARB", "SUGAR",
      "CHOLE", "SODIUM", "POTAS", "FIBER" }

\* lines 167-181
to_tagname ==
    [ENERGY |-> "ENERC_KCAL", FAT |-> "FAT", PROTEIN |-> "PROCNT",
     CARB |-> "CHOCDF", FAT_SAT |-> "FASAT", FAT_POLY |-> "FAPU",
     FAT_MONO |-> "FAMS", SUGAR |-> "SUGAR", CHOLE |-> "CHOLE",
     SODIUM |-> "NA", POTAS |-> "K", FIBER |-> "FIBTG"]

\* lines 182-198
units ==
    [ENERGY |-> "kcal", FAT |-> "g", PROTEIN |-> "g", CARB |-> "g",
     FAT_KCAL |-> "kcal", PROTEIN_KCAL |-> "kcal", CARB_KCAL |-> "kcal",
     FAT_SAT |-> "g", FAT_POLY |-> "g", FAT_MONO |-> "g", SUGAR |-> "g",
     CHOLE |-> "mg", SODIUM |-> "mg", POTAS |-> "mg", FIBER |-> "g"]

\* faulty variant of accumulate: the contribution is assigned, not added
RECURSIVE accumulate_assigning(_, _)
accumulate_assigning(ings, k) ==
    IF k = 0
    THEN [n \in total_keys |-> Zero]
    ELSE LET before == accumulate_assigning(ings, k - 1)
         IN  [n \in total_keys |->
                LET calculated == calc_nutrient(ings[k], to_tagname[n])
                IN  IF truthy(calculated) THEN calculated ELSE before[n]]

\* lines 199-203: total_nutrition after the first k ingredients of the loop
RECURSIVE accumulate(_, _)
accumulate(ings, k) ==
    IF k = 0
    THEN [n \in total_keys |-> Zero]
    ELSE LET before == accumulate(ings, k - 1)
         IN  [n \in total_keys |->
                LET calculated == calc_nutrient(ings[k], to_tagname[n])
                IN  IF truthy(calculated)
                    THEN RatAdd(before[n], calculated)
                    ELSE before[n]]

\* lines 136-209
calculate_total_nutrition(ings) ==
    LET total_nutrition == accumulate(ings, Len(ings))
    IN  [k \in total_keys |-> << round2(total_nutrition[k]), units[k] >>]

\* faulty variant of calculate_serving_nutrition: the quotient is not rounded
calculate_serving_nutrition_unrounded(total_nutrition, servings) ==
    [k \in DOMAIN total_nutrition |->
        << RatDiv(total_nutrition[k][1], Rat(servings, 1)),
           total_nutrition[k][2] >>]

\* line 228, for a call that does not divide by zero
calculate_serving_nutrition(total_nutrition, servings) ==
    [k \in DOMAIN total_nutrition |->
        << round2(RatDiv(total_nutrition[k][1], Rat(servings, 1))),
           total_nutrition[k][2] >>]

\* Totals mappings a caller may hand to calculate_serving_nutrition that
\* calculate_total_nutrition did not produce
OtherTotals ==
    { None,
      [ENERGY |-> << Rat(400, 1), "kcal" >>],
      [PROTEIN |-> << Rat(1, 8), "g" >>, FAT_SAT |-> << Rat(10, 3), "g" >>] }

\* ingredients[i].calc_nutrient(tagname)
CalcNutrient(i, tagname) ==
    /\ Fresh
    /\ calls' = << "calc_nutrient" >>
    /\ ret' = [op |-> "calc_nutrient", ing |-> i, tagname |-> tagname,
               value |-> calc_nutrient(ingredients[i], tagname)]
    /\ UNCHANGED <<pc, to_parse, self, matched_weight, raised, ingredients>>

\* total = calculate_total_nutrition(ingredients)
CalculateTotal ==
    /\ Fresh
    /\ calls' = << "calculate_total_nutrition" >>
    /\ ret' = [op |-> "calculate_total_nutrition",
               value |-> calculate_total_nutrition(ingredients)]
    /\ UNCHANGED <<pc, to_parse, self, matched_weight, raised, ingredients>>

\* the totals a caller can pass on: the mapping calculate_total_nutrition
\* just returned, or a mapping of its own when it holds no result
HeldTotals ==
    IF pc = "idle" /\ ret.op = "calculate_total_nutrition" THEN { ret.value }
    ELSE IF Fresh THEN OtherTotals
    ELSE { }

\* calculate_serving_nutrition(total, servings): the comprehension divides
\* once per key, so an empty mapping never divides
CalculateServing(total, servings) ==
    /\ pc = "idle"
    /\ total \in HeldTotals
    /\ calls' = << "calculate_serving_nutrition" >>
    /\ IF servings = 0 /\ DOMAIN total # {}
       THEN /\ raised' = ZeroDivisionError
            /\ ret' = [op |-> "calculate_serving_nutrition", total |-> total,
                       servings |-> servings]
       ELSE /\ raised' = None
            /\ ret' = [op |-> "calculate_serving_nutrition", total |-> total,
                       servings |-> servings,
                       value |-> calculate_serving_nutrition(total, servings)]
    /\ UNCHANGED <<pc, to_parse, self, matched_weight, ingredients>>

Next == 
    \/ \E text \in Texts : Parse(text)
    \/ MatchFood
    \/ UnitWeight
    \/ GetWeight
    \/ \E i \in 1..Len(ingredients), tagname \in Tagnames : CalcNutrient(i, tagname)
    \/ CalculateTotal
    \/ \E total \in HeldTotals, servings \in (-1)..MaxServings :
          CalculateServing(total, servings)
    \/ Forget

Spec == Init /\ [][Next]_vars

---------------------------------------------------------------------------
(* Vocabulary of the properties *)

\* a constructor call has ended and the caller still holds its outcome
ConstructionDone ==
    pc = "idle" /\ calls # << >> /\ calls[1] = "parse_ingredient"

ConstructionFailed == ConstructionDone /\ raised # None

ConstructionReturned == ConstructionDone /\ raised = None

\* the object the last constructor call returned
Last == ingredients[Len(ingredients)]

ParsedUnit == parse_ingredient(to_parse)[2]

ParsedName == parse_ingredient(to_parse)[4]

FoodMatched == match_one_food(ParsedName) # None

IsFoodNotFound(exc) ==
    /\ exc # None
    /\ exc.type = "IngredientError"
    /\ exc.message = "Couldn't match a food object."

IsNoWeightData(exc) ==
    /\ exc # None
    /\ exc.type = "IngredientError"
    /\ exc.message = "This food doesn't have any FoodWeight objects."

\* w = a * b, on numerators and denominators
IsProduct(w, a, b) == w[1] * a[2] * b[2] = a[1] * b[1] * w[2]

\* w = a / b, on numerators and denominators (b # 0)
IsQuotient(w, a, b) == w[1] * a[2] * b[1] = a[1] * b[2] * w[2]

\* r is x rounded to 2 decimals: a multiple of 1/100 at most 1/200 from x
IsRounded2(r, x) ==
    LET g == GCD(r[2], x[2])
    IN  /\ 100 % r[2] = 0
        /\ 200 * Abs(r[1] * (x[2] \div g) - x[1] * (r[2] \div g))
              <= (r[2] \div g) * x[2]

\* the value of a stored decimal, divided by k, as a fraction in lowest terms
Fraction(dec, k) == Rat(dec.digits, k * Pow10(dec.places))

Range(seq) == { seq[j] : j \in 1..Len(seq) }

\* w = W * (a / r), on numerators and denominators (r # 0)
IsScaled(w, W, a, r) == w[1] * W[2] * a[2] * r[1] = W[1] * a[1] * r[2] * w[2]

---------------------------------------------------------------------------
(* Weight resolution *)

\* C4: with a matched food and a parsed unit that is non-empty and in the
\* unit table, construction returns an ingredient whose weight is
\* amount * gramsPerUnit(unit), whatever the measurement and the food's weight
\* entries are, and the weight-entry path was not taken.
C4_UnitIsAuthoritative ==
    (ConstructionDone /\ FoodMatched /\ ParsedUnit # ""
        /\ ParsedUnit \in DOMAIN unit_to_grams)
    => /\ raised = None
       /\ IsProduct(Last.weight, parse_ingredient(to_parse)[1],
                    unit_to_grams[ParsedUnit])
       /\ calls = << "parse_ingredient", "match_one_food", "unit_to_grams" >>
       /\ matched_weight = None

\* a text with unit kg and measurement slice, for a food without weight entries
C4_Witness ==
    /\ ConstructionReturned
    /\ ParsedUnit = "kg"
    /\ parse_ingredient(to_parse)[3] = "slice"
    /\ Last.matched_food.weight = << >>
    /\ Last.weight = << 3000, 1 >>

\* C5: with an empty parsed unit and a matched food, a food without weight
\* entries fails with NoWeightData before the weight matcher is called, and an
\* entry e selected by the weight matcher gives the weight
\* e.weight * (amount / e.amount).
C5_MeasurementScaling ==
    (ConstructionDone /\ FoodMatched /\ ParsedUnit = "")
    => IF match_one_food(ParsedName).weight = << >>
       THEN /\ IsNoWeightData(raised)
            /\ "match_one_weight" \notin Range(calls)
            /\ matched_weight = None
       ELSE (matched_weight # None /\ matched_weight[1] # None)
            => /\ raised = None
               /\ IsScaled(Last.weight, Fraction(matched_weight[1].weight, 1),
                           parse_ingredient(to_parse)[1],
                           Fraction(matched_weight[1].amount, 1))

\* quantity 3 against the entry "2 cups = 45.0 g": 67.5 g
C5_Witness ==
    /\ ConstructionReturned
    /\ ParsedUnit = ""
    /\ matched_weight # None
    /\ matched_weight[1] # None
    /\ matched_weight[1].amount = Decimal(2000, 3)
    /\ Last.amount = << 3, 1 >>
    /\ Last.weight = << 135, 2 >>

\* C6: with an empty parsed unit and a matched food that has weight entries,
\* a weight matcher that returns no entry makes construction fail with the
\* structured ingredient error, not with a fault of reading the missing entry.
C6_NoMatchingWeightEntry ==
    (ConstructionDone /\ FoodMatched /\ ParsedUnit = ""
        /\ match_one_food(ParsedName).weight # << >>
        /\ matched_weight = << None >>)
    => /\ raised # None
       /\ raised.type = "IngredientError"

\* C7: with a matched food and a non-empty parsed unit that is not in the unit
\* table, construction fails with the structured ingredient error carrying the
\* raw text, not with a lookup fault of the unit table.
C7_UnknownUnit ==
    (ConstructionDone /\ FoodMatched /\ ParsedUnit # ""
        /\ ParsedUnit \notin DOMAIN unit_to_grams)
    => /\ raised # None
       /\ raised.type = "IngredientError"
       /\ raised.to_parse = to_parse

\* C8: an ingredient error raised while constructing from a raw text carries
\* that raw text as its context, with a non-empty reason; the context of the
\* NoWeightData error is the raw text, not the matched food.  (That the
\* unknown-unit and no-matching-entry failures are ingredient errors at all
\* is C7 and C6.)
C8_ErrorsCarryRawText ==
    (ConstructionFailed /\ raised.type = "IngredientError")
    => /\ raised.to_parse = to_parse
       /\ raised.message # ""

---------------------------------------------------------------------------
(* Order of the stages *)

StageOrders ==
    { << "parse_ingredient" >>,
      << "parse_ingredient", "match_one_food" >>,
      << "parse_ingredient", "match_one_food", "unit_to_grams" >>,
      << "parse_ingredient", "match_one_food", "weight.exists" >>,
      << "parse_ingredient", "match_one_food", "weight.exists",
         "match_one_weight" >> }

AllFields ==
    { "amount", "unit", "measurement", "name", "matched_food", "weight" }

C10_States ==
    /\ (calls # << >> /\ calls[1] = "parse_ingredient") => calls \in StageOrders
    /\ (ConstructionDone /\ ~ FoodMatched)
       => /\ IsFoodNotFound(raised)
          /\ calls = << "parse_ingredient", "match_one_food" >>
    /\ pc = "weight" => self.matched_food # None
    /\ \A i \in 1..Len(ingredients) :
          /\ DOMAIN ingredients[i] = AllFields
          /\ ingredients[i].matched_food # None
          /\ ingredients[i].weight # None

C10_Steps ==
    /\ (pc # "idle" /\ pc' = "idle" /\ raised' # None)
       => (ingredients' = ingredients /\ self' = None)
    /\ \A i \in 1..Len(ingredients) :
          /\ i <= Len(ingredients')
          /\ ingredients'[i] = ingredients[i]

\* C10: construction runs parse, match food, resolve weight in this order and
\* stops at the first failure: an unmatched food fails with FoodNotFound
\* before any unit-table or weight-entry lookup, a failed construction returns
\* no object, every returned ingredient has a matched food and a weight, and
\* no later step changes a returned ingredient.
C10_StagesInOrder == [] C10_States /\ [][C10_Steps]_vars

\* an unmatched name with an unknown unit reports FoodNotFound, after an
\* ingredient was already returned to the caller
C10_Witness ==
    /\ ConstructionFailed
    /\ IsFoodNotFound(raised)
    /\ ParsedUnit = "tbsp"
    /\ Len(ingredients) >= 1

---------------------------------------------------------------------------
(* Nutrient queries *)

\* C9: calc_nutrient returns None, without raising, exactly when the matched
\* food has no entry for the tagname; with an entry it returns
\* value / 100 * weight, which is the number 0 and not None for an entry of
\* value 0 or an ingredient of weight 0.
C9_AbsentOnlyWithoutEntry ==
    ret.op = "calc_nutrient"
    => LET ing == ingredients[ret.ing]
           entries == { n \in ing.matched_food.nutrition :
                           n.tagname = ret.tagname }
       IN  /\ raised = None
           /\ ret.value = None <=> entries = {}
           /\ \A n \in entries :
                 IsProduct(ret.value, Fraction(n.value, 100), ing.weight)

\* an entry of value 0 on an ingredient of positive weight gives the number 0
C9_Witness ==
    /\ ret.op = "calc_nutrient"
    /\ ret.tagname = "SUGAR"
    /\ ingredients[ret.ing].matched_food = Chicken
    /\ ingredients[ret.ing].weight = << 3000, 1 >>
    /\ ret.value = Zero

---------------------------------------------------------------------------
(* Aggregation *)

ReportedKeys ==
    { "ENERGY", "FAT", "PROTEIN", "CARB", "SUGAR",
      "CHOLE", "SODIUM", "POTAS", "FIBER" }

TagnameOf(k) ==
    CASE k = "ENERGY"  -> "ENERC_KCAL"
      [] k = "FAT"     -> "FAT"
      [] k = "PROTEIN" -> "PROCNT"
      [] k = "CARB"    -> "CHOCDF"
      [] k = "SUGAR"   -> "SUGAR"
      [] k = "CHOLE"   -> "CHOLE"
      [] k = "SODIUM"  -> "NA"
      [] k = "POTAS"   -> "K"
      [] k = "FIBER"   -> "FIBTG"

FixedUnit(k) ==
    IF k = "ENERGY" THEN "kcal"
    ELSE IF k \in { "CHOLE", "SODIUM", "POTAS" } THEN "mg"
    ELSE "g"

\* the sum of calc_nutrient(tagname) over the list, None counted as 0
RECURSIVE SumAbsentAsZero(_, _)
SumAbsentAsZero(ings, tagname) ==
    IF ings = << >>
    THEN Zero
    ELSE LET c == calc_nutrient(Head(ings), tagname)
         IN  RatAdd(IF c = None THEN Zero ELSE c,
                    SumAbsentAsZero(Tail(ings), tagname))

\* C1: calculate_total_nutrition returns exactly the nine reported keys, each
\* with its fixed unit and the sum over the list of calc_nutrient (None
\* counted as 0) rounded to 2 decimals; the empty list gives 0 for every key.
C1_TotalIsRoundedSum ==
    ret.op = "calculate_total_nutrition"
    => /\ raised = None
       /\ DOMAIN ret.value = ReportedKeys
       /\ \A k \in ReportedKeys :
             /\ ret.value[k][2] = FixedUnit(k)
             /\ IsRounded2(ret.value[k][1],
                           SumAbsentAsZero(ingredients, TagnameOf(k)))
             /\ ingredients = << >> => ret.value[k][1] = Zero

\* bread (no FAT entry) followed by chicken: FAT is chicken's contribution,
\* and the SUGAR sum 3.6246 is reported as 3.62
C1_Witness ==
    /\ ret.op = "calculate_total_nutrition"
    /\ Len(ingredients) = 2
    /\ ingredients[1].matched_food = Bread
    /\ ingredients[1].weight = << 84, 1 >>
    /\ ingredients[2].matched_food = Chicken
    /\ ingredients[2].weight = << 3000, 1 >>
    /\ ret.value["FAT"] = << << 555, 2 >>, "g" >>
    /\ ret.value["SUGAR"] = << << 181, 50 >>, "g" >>

\* C2: calculate_serving_nutrition with servings <= 0 fails with an
\* InvalidServings error and returns no mapping.
C2_InvalidServings ==
    (ret.op = "calculate_serving_nutrition" /\ ret.servings <= 0)
    => /\ raised # None
       /\ raised.type = "InvalidServings"
       /\ "value" \notin DOMAIN ret

AllRounded2(total) ==
    \A k \in DOMAIN total : 100 % total[k][1][2] = 0

\* C3: for servings n >= 1 calculate_serving_nutrition returns the keys of
\* total, each with the unit of total[k] and the amount total[k] / n rounded
\* to 2 decimals; with n = 1 and amounts already rounded to 2 decimals the
\* result equals total.
C3_ServingIsRoundedQuotient ==
    (ret.op = "calculate_serving_nutrition" /\ ret.servings >= 1)
    => /\ raised = None
       /\ "value" \in DOMAIN ret
       /\ DOMAIN ret.value = DOMAIN ret.total
       /\ \A k \in DOMAIN ret.total :
             /\ ret.value[k][2] = ret.total[k][2]
             /\ IsRounded2(ret.value[k][1],
                           << ret.total[k][1][1],
                              ret.total[k][1][2] * ret.servings >>)
       /\ (ret.servings = 1 /\ AllRounded2(ret.total)) => ret.value = ret.total

\* a total of calculate_total_nutrition halved, where halving 2.91 g of sugar
\* had to be rounded
C3_Witness ==
    /\ ret.op = "calculate_serving_nutrition"
    /\ ret.servings = 2
    /\ DOMAIN ret.total = ReportedKeys
    /\ ret.total["SUGAR"][1] = << 291, 100 >>
    /\ "value" \in DOMAIN ret
    /\ ret.value["SUGAR"][1] # << 291, 200 >>

====
